---- MODULE Spec2Model ----
(***************************************************************************)
(* Model of ns3::ReorderQueue<Item> (src/network/utils/reorder-queue.h):   *)
(* a bounded queue whose Dequeue holds one packet back every               *)
(* m_inSequenceLength in-order releases and lets m_reorderDepth later      *)
(* packets bypass it.                                                      *)
(***************************************************************************)
EXTENDS Integers, Sequences, FiniteSets, TLC

\* ---------------------------------------------------------------- bounds
MaxItems == 5        \* number of Enqueue calls in a run
MaxSize == 2         \* packet sizes are 1..MaxSize
MaxLimit == 3        \* configured MaxLength values are 1..MaxLimit
MaxDepth == 2        \* configured ReorderDepth values are 0..MaxDepth
MaxInSeq == 2        \* configured InSequenceLength values are 0..MaxInSeq
MaxDequeueCount == 7 \* the Dequeue call counter saturates here
ScenarioItems == 6   \* number of Enqueue calls in the default-configuration run

\* ------------------------------------------------------ program constants
DefaultMaxLength == 100
DefaultReorderDepth == 5
DefaultInSequenceLength == 3
PACKETS == "PACKETS"
BYTES == "BYTES"

\* The uint32_t counters are modelled as unbounded integers: within the bounds
\* above no sum reaches 2^32, and a subtraction that would wrap shows up as a
\* negative value.

\* Ptr<Item> (0): the null pointer
NoItem == [id |-> 0, size |-> 0]

\* Ptr<Item> to a packet: identity and GetSize ()
Item(i, s) == [id |-> i, size |-> s]

VARIABLES
  m_maxSize,          \* QueueSize: [unit, value]
  m_reorderDepth,
  m_inSequenceLength,
  m_packets,          \* std::queue<Ptr<Item>> of this class (the Store)
  m_bytesInQueue,
  m_holdCount,
  m_inSequenceCount,
  m_held,
  container,          \* the base Queue<Item>'s own container (GetContainer ())
  accepted,           \* history: ids of the items for which Enqueue returned true
  dropped,            \* history: ids of the items passed to DropBeforeEnqueue
  out,                \* history: ids of the items returned by Dequeue or Remove
  nEnqueue,           \* history: number of Enqueue calls
  nDequeue,           \* history: number of Dequeue calls (saturating)
  runLen,             \* history: normal releases since the last hold event
  bypassed,           \* history: items returned since the held item was set aside
  viaHeld,            \* history: ids of the items returned by the release branch
  last                \* the last call: [op, arg, ok, ret, branch]

config == <<m_maxSize, m_reorderDepth, m_inSequenceLength>>
queue == <<m_packets, m_bytesInQueue, m_holdCount, m_inSequenceCount, m_held>>
history ==
  <<accepted, dropped, out, nEnqueue, nDequeue, runLen, bypassed, viaHeld, last>>
vars == <<config, queue, container, history>>

Call(op, arg, ok, ret, branch) ==
  [op |-> op, arg |-> arg, ok |-> ok, ret |-> ret, branch |-> branch]

\* ------------------------------------------------------------ construction
\* Attribute values the TypeId accepts (the checkers set no minimum).
Configs ==
  [maxSize : [unit : {PACKETS, BYTES}, value : 1..MaxLimit],
   reorderDepth : 0..MaxDepth,
   inSequenceLength : 0..MaxInSeq]

DefaultConfig ==
  [maxSize |-> [unit |-> PACKETS, value |-> DefaultMaxLength],
   reorderDepth |-> DefaultReorderDepth,
   inSequenceLength |-> DefaultInSequenceLength]

\* ReorderQueue (): the state after construction with attribute values c
Constructed(c) ==
  /\ m_maxSize = c.maxSize
  /\ m_reorderDepth = c.reorderDepth
  /\ m_inSequenceLength = c.inSequenceLength
  /\ m_packets = <<>>
  /\ m_bytesInQueue = 0
  /\ m_holdCount = 0
  /\ m_inSequenceCount = 0
  /\ m_held = NoItem
  /\ container = <<>>
  /\ accepted = <<>>
  /\ dropped = <<>>
  /\ out = <<>>
  /\ nEnqueue = 0
  /\ nDequeue = 0
  /\ runLen = 0
  /\ bypassed = 0
  /\ viaHeld = {}
  /\ last = Call("none", NoItem, FALSE, NoItem, "none")

Init == \E c \in Configs : Constructed(c)

\* construction with a reorder depth and an in-sequence length of at least 1
InitValid ==
  \E c \in Configs :
    c.reorderDepth >= 1 /\ c.inSequenceLength >= 1 /\ Constructed(c)

\* construction with the attribute defaults of GetTypeId ()
InitDefaults == Constructed(DefaultConfig)

\* ----------------------------------------------------------------- Enqueue
\* variant: the element-count test lets the Store grow one past the limit
PacketsFullOffByOne ==
  m_maxSize.unit = PACKETS /\ Len(m_packets) > m_maxSize.value

\* variant: the element-count test is applied in the wrong unit
PacketsFullWrongUnit ==
  m_maxSize.unit = BYTES /\ Len(m_packets) >= m_maxSize.value

\* line 130: element-count admission test
PacketsFull ==
  m_maxSize.unit = PACKETS /\ Len(m_packets) >= m_maxSize.value

\* variant: an item that brings the byte counter to exactly the limit gets in
BytesFullAllowsLimit(item) ==
  m_maxSize.unit = BYTES /\ m_bytesInQueue + item.size > m_maxSize.value

\* line 137: byte admission test
BytesFull(item) ==
  m_maxSize.unit = BYTES /\ m_bytesInQueue + item.size >= m_maxSize.value

\* variant: a rejected item is still added to the byte counter
EnqueueRejectCounts(item) ==
  /\ PacketsFull \/ BytesFull(item)
  /\ dropped' = Append(dropped, item.id)
  /\ last' = Call("Enqueue", item, FALSE, NoItem, "reject")
  /\ m_bytesInQueue' = m_bytesInQueue + item.size
  /\ UNCHANGED <<m_packets, m_holdCount, m_inSequenceCount, m_held, accepted>>

\* lines 130-142: DropBeforeEnqueue (item); return false
EnqueueReject(item) ==
  /\ PacketsFull \/ BytesFull(item)
  /\ dropped' = Append(dropped, item.id)
  /\ last' = Call("Enqueue", item, FALSE, NoItem, "reject")
  /\ UNCHANGED <<queue, accepted>>

\* lines 144-150: account the bytes, push, return true
EnqueueAccept(item) ==
  /\ ~(PacketsFull \/ BytesFull(item))
  /\ m_bytesInQueue' = m_bytesInQueue + item.size
  /\ m_packets' = Append(m_packets, item)
  /\ accepted' = Append(accepted, item.id)
  /\ last' = Call("Enqueue", item, TRUE, NoItem, "accept")
  /\ UNCHANGED <<m_holdCount, m_inSequenceCount, m_held, dropped>>

EnqueueUpTo(n) ==
  /\ nEnqueue < n
  /\ \E s \in 1..MaxSize :
       LET item == Item(nEnqueue + 1, s)
       IN  EnqueueReject(item) \/ EnqueueAccept(item)
  /\ nEnqueue' = nEnqueue + 1
  /\ UNCHANGED <<config, container, out, nDequeue, runLen, bypassed, viaHeld>>

Enqueue == EnqueueUpTo(MaxItems)

\* ----------------------------------------------------------------- Dequeue
\* variant: the held packet is released one bypass too late
ReleaseHeldCondLate == m_holdCount = m_reorderDepth + 1 /\ m_held # NoItem

\* line 166
ReleaseHeldCond == m_holdCount = m_reorderDepth /\ m_held # NoItem

\* variant: the hold starts one release too early
HoldTriggerEarly == m_inSequenceCount + 1 = m_inSequenceLength

\* variant: the hold starts one release too late
HoldTriggerLate == m_inSequenceCount = m_inSequenceLength + 1

\* line 178
HoldTrigger == m_inSequenceCount = m_inSequenceLength

Min(a, b) == IF a < b THEN a ELSE b

\* variant: an empty Store makes Dequeue forget the reordering counters
DequeueEmptyResets ==
  /\ m_packets = <<>>
  /\ m_holdCount' = 0
  /\ m_inSequenceCount' = 0
  /\ last' = Call("Dequeue", NoItem, FALSE, NoItem, "empty")
  /\ UNCHANGED <<m_packets, m_bytesInQueue, m_held, out, runLen, bypassed>>

\* lines 159-163: nothing in the Store
DequeueEmpty ==
  /\ m_packets = <<>>
  /\ last' = Call("Dequeue", NoItem, FALSE, NoItem, "empty")
  /\ UNCHANGED <<queue, out, runLen, bypassed>>

\* variant: the release branch also pops the Store head
DequeueReleaseHeldPops ==
  /\ m_packets # <<>>
  /\ ReleaseHeldCond
  /\ m_held' = NoItem
  /\ m_packets' = Tail(m_packets)
  /\ m_bytesInQueue' = m_bytesInQueue - m_held.size
  /\ m_inSequenceCount' = 0
  /\ m_holdCount' = 0
  /\ out' = Append(out, m_held.id)
  /\ bypassed' = 0
  /\ last' = Call("Dequeue", NoItem, TRUE, m_held, "release")
  /\ UNCHANGED runLen

\* variant: the release branch leaves the hold counter as it was
DequeueReleaseHeldKeepsCount ==
  /\ m_packets # <<>>
  /\ ReleaseHeldCond
  /\ m_held' = NoItem
  /\ m_bytesInQueue' = m_bytesInQueue - m_held.size
  /\ m_inSequenceCount' = 0
  /\ out' = Append(out, m_held.id)
  /\ bypassed' = 0
  /\ last' = Call("Dequeue", NoItem, TRUE, m_held, "release")
  /\ UNCHANGED <<m_packets, m_holdCount, runLen>>

\* lines 166-174: the held packet is released
DequeueReleaseHeld ==
  /\ m_packets # <<>>
  /\ ReleaseHeldCond
  /\ m_held' = NoItem
  /\ m_bytesInQueue' = m_bytesInQueue - m_held.size
  /\ m_inSequenceCount' = 0
  /\ m_holdCount' = 0
  /\ out' = Append(out, m_held.id)
  /\ bypassed' = 0
  /\ last' = Call("Dequeue", NoItem, TRUE, m_held, "release")
  /\ UNCHANGED <<m_packets, runLen>>

\* variant: the drained packet's bytes stay in the byte counter
DequeueHoldDrainKeepsBytes ==
  /\ m_packets # <<>>
  /\ ~ReleaseHeldCond
  /\ HoldTrigger
  /\ Tail(m_packets) = <<>>
  /\ m_packets' = <<>>
  /\ m_inSequenceCount' = 0
  /\ m_holdCount' = 0
  /\ m_held' = NoItem
  /\ out' = Append(out, Head(m_packets).id)
  /\ runLen' = 0
  /\ bypassed' = 0
  /\ last' = Call("Dequeue", NoItem, TRUE, Head(m_packets), "hold-drain")
  /\ UNCHANGED m_bytesInQueue

\* lines 178-193: the head is held, nothing is left, so it is released at once
DequeueHoldDrain ==
  /\ m_packets # <<>>
  /\ ~ReleaseHeldCond
  /\ HoldTrigger
  /\ Tail(m_packets) = <<>>
  /\ m_packets' = <<>>
  /\ m_inSequenceCount' = 0
  /\ m_holdCount' = 0
  /\ m_held' = NoItem
  /\ m_bytesInQueue' = m_bytesInQueue - Head(m_packets).size
  /\ out' = Append(out, Head(m_packets).id)
  /\ runLen' = 0
  /\ bypassed' = 0
  /\ last' = Call("Dequeue", NoItem, TRUE, Head(m_packets), "hold-drain")

\* variant: the second packet is held and the head is returned
DequeueHoldPopSwapped ==
  /\ m_packets # <<>>
  /\ ~ReleaseHeldCond
  /\ HoldTrigger
  /\ Tail(m_packets) # <<>>
  /\ m_held' = Head(Tail(m_packets))
  /\ m_packets' = Tail(Tail(m_packets))
  /\ m_inSequenceCount' = 0
  /\ m_holdCount' = 1
  /\ m_bytesInQueue' = m_bytesInQueue - Head(m_packets).size
  /\ out' = Append(out, Head(m_packets).id)
  /\ runLen' = 0
  /\ bypassed' = 1
  /\ last' = Call("Dequeue", NoItem, TRUE, Head(m_packets), "hold-pop")

\* lines 178-184 and 195-206: the head is held and the next packet is popped
DequeueHoldPop ==
  /\ m_packets # <<>>
  /\ ~ReleaseHeldCond
  /\ HoldTrigger
  /\ Tail(m_packets) # <<>>
  /\ m_held' = Head(m_packets)
  /\ m_packets' = Tail(Tail(m_packets))
  /\ m_inSequenceCount' = 0
  /\ m_holdCount' = 1
  /\ m_bytesInQueue' = m_bytesInQueue - Head(Tail(m_packets)).size
  /\ out' = Append(out, Head(Tail(m_packets)).id)
  /\ runLen' = 0
  /\ bypassed' = 1
  /\ last' = Call("Dequeue", NoItem, TRUE, Head(Tail(m_packets)), "hold-pop")

\* variant: the head is returned but stays in the Store
DequeuePopKeepsHead ==
  /\ m_packets # <<>>
  /\ ~ReleaseHeldCond
  /\ ~HoldTrigger
  /\ m_bytesInQueue' = m_bytesInQueue - Head(m_packets).size
  /\ IF m_held # NoItem
       THEN /\ m_holdCount' = m_holdCount + 1
            /\ bypassed' = bypassed + 1
            /\ UNCHANGED <<m_inSequenceCount, runLen>>
       ELSE /\ m_inSequenceCount' = m_inSequenceCount + 1
            /\ runLen' = runLen + 1
            /\ UNCHANGED <<m_holdCount, bypassed>>
  /\ out' = Append(out, Head(m_packets).id)
  /\ last' = Call("Dequeue", NoItem, TRUE, Head(m_packets), "pop")
  /\ UNCHANGED <<m_held, m_packets>>

\* variant: the newest packet is popped instead of the oldest
DequeuePopBack ==
  /\ m_packets # <<>>
  /\ ~ReleaseHeldCond
  /\ ~HoldTrigger
  /\ m_packets' = SubSeq(m_packets, 1, Len(m_packets) - 1)
  /\ m_bytesInQueue' = m_bytesInQueue - m_packets[Len(m_packets)].size
  /\ IF m_held # NoItem
       THEN /\ m_holdCount' = m_holdCount + 1
            /\ bypassed' = bypassed + 1
            /\ UNCHANGED <<m_inSequenceCount, runLen>>
       ELSE /\ m_inSequenceCount' = m_inSequenceCount + 1
            /\ runLen' = runLen + 1
            /\ UNCHANGED <<m_holdCount, bypassed>>
  /\ out' = Append(out, m_packets[Len(m_packets)].id)
  /\ last' = Call("Dequeue", NoItem, TRUE, m_packets[Len(m_packets)], "pop")
  /\ UNCHANGED m_held

\* lines 195-206: the head is popped
DequeuePop ==
  /\ m_packets # <<>>
  /\ ~ReleaseHeldCond
  /\ ~HoldTrigger
  /\ m_packets' = Tail(m_packets)
  /\ m_bytesInQueue' = m_bytesInQueue - Head(m_packets).size
  /\ IF m_held # NoItem
       THEN /\ m_holdCount' = m_holdCount + 1
            /\ bypassed' = bypassed + 1
            /\ UNCHANGED <<m_inSequenceCount, runLen>>
       ELSE /\ m_inSequenceCount' = m_inSequenceCount + 1
            /\ runLen' = runLen + 1
            /\ UNCHANGED <<m_holdCount, bypassed>>
  /\ out' = Append(out, Head(m_packets).id)
  /\ last' = Call("Dequeue", NoItem, TRUE, Head(m_packets), "pop")
  /\ UNCHANGED m_held

Dequeue ==
  /\ \/ DequeueEmpty
     \/ DequeueReleaseHeld
     \/ DequeueHoldDrain
     \/ DequeueHoldPop
     \/ DequeuePop
  /\ nDequeue' = Min(nDequeue + 1, MaxDequeueCount)
  /\ viaHeld' = IF last'.branch = "release"
                  THEN viaHeld \cup {last'.ret.id} ELSE viaHeld
  /\ UNCHANGED <<config, container, accepted, dropped, nEnqueue>>

\* ------------------------------------------------------------------ Remove
\* Queue<Item>::DoRemove (pos): takes the item at pos out of the base
\* container; null when that container is empty
DoRemove(c) ==
  IF c = <<>> THEN [item |-> NoItem, rest |-> c]
              ELSE [item |-> Head(c), rest |-> Tail(c)]

\* variant: Remove restarts the reordering cycle
RemoveResetsCounters ==
  /\ container' = DoRemove(container).rest
  /\ out' = IF DoRemove(container).item = NoItem
              THEN out ELSE Append(out, DoRemove(container).item.id)
  /\ last' = Call("Remove", NoItem, DoRemove(container).item # NoItem,
                  DoRemove(container).item, "remove")
  /\ m_holdCount' = 0
  /\ m_inSequenceCount' = 0
  /\ UNCHANGED <<config, m_packets, m_bytesInQueue, m_held, accepted, dropped,
                 nEnqueue, nDequeue, runLen, bypassed, viaHeld>>

\* lines 215-226: DoRemove (GetContainer ().begin ())
Remove ==
  /\ container' = DoRemove(container).rest
  /\ out' = IF DoRemove(container).item = NoItem
              THEN out ELSE Append(out, DoRemove(container).item.id)
  /\ last' = Call("Remove", NoItem, DoRemove(container).item # NoItem,
                  DoRemove(container).item, "remove")
  /\ UNCHANGED <<config, queue, accepted, dropped, nEnqueue, nDequeue,
                 runLen, bypassed, viaHeld>>

Next == Enqueue \/ Dequeue \/ Remove

Spec == Init /\ [][Next]_vars

\* runs of a queue configured with positive reorder parameters
SpecValid == InitValid /\ [][Next]_vars

\* the consumer keeps calling Dequeue; producers may stop at any point
FairSpec == InitValid /\ [][Next]_vars /\ WF_vars(Dequeue)

\* the default configuration: every Enqueue comes before the first Dequeue
EnqueueFirst == nDequeue = 0 /\ EnqueueUpTo(ScenarioItems)

NextDefaults == EnqueueFirst \/ Dequeue

SpecDefaults == InitDefaults /\ [][NextDefaults]_vars

\* ================================================================ properties
RECURSIVE SumSizes(_)
SumSizes(q) == IF q = <<>> THEN 0 ELSE Head(q).size + SumSizes(Tail(q))

Ids(q) == [k \in 1..Len(q) |-> q[k].id]

Accepted(i) == \E k \in 1..Len(accepted) : accepted[k] = i

TimesReturned(i) == Cardinality({k \in 1..Len(out) : out[k] = i})

ValidConfig == m_reorderDepth >= 1 /\ m_inSequenceLength >= 1

\* C1 (as claimed): with ReorderDepth >= 1 and InSequenceLength >= 1 and a
\* consumer that keeps calling Dequeue, every accepted item is eventually
\* returned, and no item is ever returned twice.
C1_NoLoss ==
  \A i \in 1..MaxItems :
    /\ [](ValidConfig => TimesReturned(i) <= 1)
    /\ [](ValidConfig /\ Accepted(i) => <>(TimesReturned(i) = 1))

\* C2 (as claimed): the byte counter equals the sizes of the Store's items
\* plus the size of the held item, in every reachable state.
C2_ByteInvariant ==
  m_bytesInQueue = SumSizes(m_packets) + m_held.size

\* C3: an Enqueue call returns true exactly when the Store is shorter than
\* the limit (element-count mode) or the byte counter plus the item's size is
\* below the limit (byte mode); on success the item is appended to the Store
\* and the byte counter grows by the item's size.
C3_AdmissionCorrect ==
  [][last'.op = "Enqueue" =>
       /\ m_maxSize.unit = PACKETS =>
            (last'.ok <=> Len(m_packets) < m_maxSize.value)
       /\ m_maxSize.unit = BYTES =>
            (last'.ok <=> m_bytesInQueue + last'.arg.size < m_maxSize.value)
       /\ last'.ok =>
            /\ m_packets' = Append(m_packets, last'.arg)
            /\ m_bytesInQueue' = m_bytesInQueue + last'.arg.size]_vars

\* C3 witness: both modes have accepted one item and rejected the next
C3_Witness ==
  /\ last.op = "Enqueue" /\ ~last.ok
  /\ m_maxSize.unit = BYTES
  /\ Len(accepted) >= 1 /\ Len(m_packets) >= 1

\* C4 (as claimed): a non-empty held slot implies a non-empty Store.
C4_HeldImpliesStore ==
  m_held # NoItem => m_packets # <<>>

\* C5: with ReorderDepth >= 1 the hold counter never exceeds the reorder
\* depth, and no more than ReorderDepth items are returned while one item
\* stays in the held slot.
C5_BoundedHold ==
  m_reorderDepth >= 1 =>
    /\ m_holdCount <= m_reorderDepth
    /\ bypassed <= m_reorderDepth

\* C5 witness: a held item was released after ReorderDepth >= 2 bypasses
C5_Witness ==
  /\ last.branch = "release"
  /\ m_reorderDepth >= 2
  /\ Len(out) >= m_reorderDepth + 1

\* C6: the in-sequence counter and the number of normal releases since the
\* last hold event never exceed InSequenceLength, and a Dequeue on a
\* non-empty Store with the counter at InSequenceLength and an empty held
\* slot sets the Store head aside.
C6_BoundedInSequence ==
  /\ [](m_inSequenceCount <= m_inSequenceLength /\ runLen <= m_inSequenceLength)
  /\ [][(/\ last'.op = "Dequeue"
         /\ m_packets # <<>>
         /\ m_held = NoItem
         /\ m_inSequenceCount = m_inSequenceLength)
        => /\ m_inSequenceCount' = 0
           /\ runLen' = 0
           /\ \/ m_held' = Head(m_packets) /\ last'.ret = Head(Tail(m_packets))
              \/ Len(m_packets) = 1 /\ last'.ret = Head(m_packets)]_vars

\* C6 witness: a hold began after InSequenceLength >= 2 normal releases
C6_Witness ==
  /\ last.branch = "hold-pop"
  /\ m_inSequenceLength >= 2
  /\ Len(out) = m_inSequenceLength + 1
  /\ m_held # NoItem

C8_DrainSafety ==
  [][(/\ last'.op = "Dequeue"
      /\ Len(m_packets) = 1
      /\ m_held = NoItem
      /\ m_inSequenceCount = m_inSequenceLength)
     => /\ last'.ret = Head(m_packets)
        /\ out' = Append(out, Head(m_packets).id)
        /\ m_held' = NoItem
        /\ m_packets' = <<>>
        /\ m_bytesInQueue' = m_bytesInQueue - Head(m_packets).size]_vars

\* C8 witness: the last item was held and released in one call, after
\* InSequenceLength >= 1 normal releases
C8_Witness ==
  /\ last.branch = "hold-drain"
  /\ m_inSequenceLength >= 1
  /\ Len(out) = m_inSequenceLength + 1
  /\ m_packets = <<>> /\ m_held = NoItem

\* C9: an Enqueue call that returns false reports the item as dropped and
\* leaves the Store, the byte counter, the held slot and both counters as
\* they were.
C9_RejectNoSideEffect ==
  [][(last'.op = "Enqueue" /\ ~last'.ok)
     => /\ dropped' = Append(dropped, last'.arg.id)
        /\ accepted' = accepted
        /\ m_packets' = m_packets
        /\ m_bytesInQueue' = m_bytesInQueue
        /\ m_held' = m_held
        /\ m_holdCount' = m_holdCount
        /\ m_inSequenceCount' = m_inSequenceCount]_vars

\* C9 witness: limit 2 elements, items 1 and 2 accepted, item 3 rejected
C9_Witness ==
  /\ m_maxSize = [unit |-> PACKETS, value |-> 2]
  /\ Ids(m_packets) = <<1, 2>>
  /\ dropped = <<3>>
  /\ last.op = "Enqueue" /\ ~last.ok

\* C10 (as claimed): a Remove call on a non-empty Store returns the Store's
\* head and takes it out of the Store.
C10_RemoveEvictsHead ==
  [][(last'.op = "Remove" /\ m_packets # <<>>)
     => /\ last'.ret = Head(m_packets)
        /\ m_packets' = Tail(m_packets)]_vars

\* C11: a Remove call leaves the held slot, the hold counter and the
\* in-sequence counter as they were.
C11_RemoveKeepsReorderState ==
  [][last'.op = "Remove"
     => /\ m_held' = m_held
        /\ m_holdCount' = m_holdCount
        /\ m_inSequenceCount' = m_inSequenceCount]_vars

\* C11 witness: Remove was called while an item was held and had been bypassed
C11_Witness ==
  /\ last.op = "Remove"
  /\ m_held # NoItem
  /\ m_holdCount >= 1

\* C12: a Dequeue call on an empty Store returns no item and leaves the
\* Store, the byte counter, the held slot and both counters as they were.
C12_EmptyDequeueNoOp ==
  [][(last'.op = "Dequeue" /\ m_packets = <<>>)
     => /\ last'.ret = NoItem
        /\ out' = out
        /\ m_packets' = m_packets
        /\ m_bytesInQueue' = m_bytesInQueue
        /\ m_held' = m_held
        /\ m_holdCount' = m_holdCount
        /\ m_inSequenceCount' = m_inSequenceCount]_vars

\* C12 witness: Dequeue found the Store empty after items had passed through
C12_Witness ==
  /\ last.op = "Dequeue" /\ last.ret = NoItem
  /\ m_packets = <<>>
  /\ Len(out) >= 1
  /\ m_inSequenceCount >= 1

\* C13 (as claimed): no Dequeue call runs on a queue whose ReorderDepth or
\* InSequenceLength is 0.
C13_NoDequeueWithZero ==
  last.op = "Dequeue" => (m_reorderDepth # 0 /\ m_inSequenceLength # 0)

\* C14: a Dequeue call that finds a non-empty Store, a held item and the hold
\* counter at ReorderDepth returns the held item, empties the held slot,
\* takes the item's size off the byte counter, sets both counters to 0 and
\* leaves the Store as it was.
C14_ReleaseHeldBranch ==
  [][(/\ last'.op = "Dequeue"
      /\ m_packets # <<>>
      /\ m_held # NoItem
      /\ m_holdCount = m_reorderDepth)
     => /\ last'.ret = m_held
        /\ out' = Append(out, m_held.id)
        /\ m_held' = NoItem
        /\ m_bytesInQueue' = m_bytesInQueue - m_held.size
        /\ m_inSequenceCount' = 0
        /\ m_holdCount' = 0
        /\ m_packets' = m_packets]_vars

\* C14 witness: the held item was released with two items still in the Store
C14_Witness ==
  /\ last.branch = "release"
  /\ Len(m_packets) >= 2
  /\ m_held = NoItem

\* C15: with ReorderDepth >= 1 and InSequenceLength >= 1, a held item is
\* returned right after exactly ReorderDepth items enqueued after it, and
\* ahead of the item then at the Store head; once ReorderDepth items have
\* bypassed it and the Store is non-empty the next Dequeue returns it; and
\* every hold follows exactly InSequenceLength normal releases.
C15_ExactDisplacement ==
  /\ [](ValidConfig /\ last.branch = "release" =>
          LET n == Len(out)
              h == last.ret.id
          IN  /\ n > m_reorderDepth
              /\ out[n] = h
              /\ \A k \in (n - m_reorderDepth)..(n - 1) : out[k] > h
              /\ n - m_reorderDepth - 1 >= 1 => out[n - m_reorderDepth - 1] < h
              /\ m_packets # <<>>
              /\ Head(m_packets).id > h)
  /\ [][(/\ ValidConfig
         /\ last'.op = "Dequeue"
         /\ m_held # NoItem
         /\ bypassed = m_reorderDepth
         /\ m_packets # <<>>)
        => last'.ret = m_held]_vars
  /\ [][(ValidConfig /\ m_held = NoItem /\ m_held' # NoItem)
        => runLen = m_inSequenceLength]_vars

\* C15 witness: an item held after two normal releases came back behind the
\* two items that followed it
C15_Witness ==
  /\ last.branch = "release"
  /\ m_reorderDepth = 2
  /\ m_inSequenceLength = 1
  /\ out = <<1, 3, 4, 2>>
  /\ m_packets # <<>>

\* C16: with ReorderDepth >= 1 and InSequenceLength >= 1, the hold counter is
\* 0 while the held slot is empty and the in-sequence counter is 0 while it
\* is occupied; a Dequeue that starts a hold or empties the held slot leaves
\* both counters at 0, except that the hold counter is 1 when the hold is
\* followed by a pop.
C16_CounterSlotCoupling ==
  /\ [](ValidConfig =>
          /\ m_held = NoItem => m_holdCount = 0
          /\ m_held # NoItem => m_inSequenceCount = 0)
  /\ [][(/\ ValidConfig
         /\ last'.op = "Dequeue"
         /\ \/ /\ m_packets # <<>>
               /\ m_held = NoItem
               /\ m_inSequenceCount = m_inSequenceLength
            \/ m_held # NoItem /\ m_held' = NoItem)
        => /\ m_inSequenceCount' = 0
           /\ m_holdCount' = IF m_held = NoItem /\ m_held' # NoItem
                               THEN 1 ELSE 0]_vars

\* C16 witness: the held slot was emptied after the hold counter had reached 2
C16_Witness ==
  /\ last.branch = "release"
  /\ m_reorderDepth = 2
  /\ m_inSequenceLength >= 1
  /\ m_holdCount = 0 /\ m_inSequenceCount = 0

HeldIds == IF m_held = NoItem THEN {} ELSE {m_held.id}

Range(q) == {q[k] : k \in 1..Len(q)}

\* C17: with ReorderDepth >= 1 and InSequenceLength >= 1, the accepted items
\* are exactly the returned items, the Store's items and the held item, each
\* counted once; a Dequeue changes an occupied held slot only by returning
\* the held item.
C17_Conservation ==
  /\ [](ValidConfig =>
          /\ Range(accepted) = Range(out) \cup Range(Ids(m_packets)) \cup HeldIds
          /\ Cardinality(Range(accepted)) = Len(accepted)
          /\ Len(accepted) = Len(out) + Len(m_packets) + Cardinality(HeldIds))
  /\ [][(ValidConfig /\ m_held # NoItem /\ m_held' # m_held)
        => (m_held' = NoItem /\ last'.ret = m_held)]_vars

\* C17 witness: items are at once returned, in the Store and in the held slot
C17_Witness ==
  /\ ValidConfig
  /\ m_held # NoItem
  /\ Len(m_packets) >= 1
  /\ Len(out) >= 2
  /\ Len(accepted) = Len(out) + Len(m_packets) + 1

\* C18: with ReorderDepth >= 1 and InSequenceLength >= 1, whenever a later
\* returned item was enqueued before an earlier returned one, the later one
\* came from the held slot; and every item returned after a held item was
\* enqueued after it.
C18_OrderOutsideHolds ==
  ValidConfig =>
    \A j \in 1..Len(out) : \A k \in 1..Len(out) :
      j < k =>
        /\ out[j] > out[k] => out[k] \in viaHeld
        /\ out[j] \in viaHeld => out[j] < out[k]

\* C18 witness: a held item was returned after a later one and Dequeue has
\* gone on returning Store items since
C18_Witness ==
  /\ ValidConfig
  /\ \E j \in 1..Len(out) : \E k \in 1..Len(out) :
       /\ j < k /\ k < Len(out)
       /\ out[j] > out[k]
       /\ out[k] \in viaHeld

Owned == Len(m_packets) + Cardinality(HeldIds)

\* C19 (as claimed): in element-count mode the items in the Store plus the
\* held item never number more than the limit.
C19_OwnedWithinLimit ==
  m_maxSize.unit = PACKETS => Owned <= m_maxSize.value

\* C19 (amended): in element-count mode the Store never holds more items
\* than the limit, and the Store plus the held item never number more than
\* the limit plus one.
C19_StoreWithinLimit ==
  m_maxSize.unit = PACKETS =>
    /\ Len(m_packets) <= m_maxSize.value
    /\ Owned <= m_maxSize.value + 1

\* C19 witness: the Store is full while an item is held
C19_Witness ==
  /\ m_maxSize.unit = PACKETS
  /\ Len(m_packets) = m_maxSize.value
  /\ m_held # NoItem
  /\ Owned = m_maxSize.value + 1

\* C20: in byte mode the byte counter stays below the limit, and in either
\* mode it never goes below 0.
C20_BytesBelowLimit ==
  /\ m_bytesInQueue >= 0
  /\ m_maxSize.unit = BYTES => m_bytesInQueue < m_maxSize.value

\* C20 witness: an item that would have brought the counter to exactly the
\* limit was rejected, after a Dequeue had taken bytes off the counter
C20_Witness ==
  /\ m_maxSize.unit = BYTES
  /\ last.op = "Enqueue" /\ ~last.ok
  /\ m_bytesInQueue + last.arg.size = m_maxSize.value
  /\ Len(out) >= 1

====
